---- MODULE Spec2Model ----
(***************************************************************************)
(* Verification model of arweave-rs: the chunk codec / Merkle engine /     *)
(* proof verifier (crypto/merkle.rs), the peer crawler (nodes.rs), the     *)
(* downloader (download.rs), the uploader (upload.rs, lib.rs) and the      *)
(* currency amounts (currency.rs).                                         *)
(*                                                                         *)
(* Byte strings are kept abstract but faithful to equality:                *)
(*   - payload bytes are run-length encoded, <<b1, n1, b2, n2, ...>> in    *)
(*     normal form (adjacent runs differ, every run is non-empty), so two  *)
(*     slices are equal exactly when their bytes are equal;                *)
(*   - SHA-256 is a collision-free term constructor (brackets -1 .. -2);   *)
(*   - a 32-byte note is <<-4, pad, hi, lo>>: 24 notepad bytes (pad), the  *)
(*     upper 5 bytes (hi) and the lower 3 bytes (lo) of the 8-byte         *)
(*     big-endian offset.                                                  *)
(* Option<T> is a sequence of length 0 (None) or 1 (Some).                 *)
(***************************************************************************)
EXTENDS Integers, Sequences, FiniteSets, TLC

VARIABLES
    \* ---- merkle.rs ----
    mpc,        \* "input" | "built" | "checked" | "panicked" | "tx" | "tx_panicked"
    data,       \* the payload (run-length encoded bytes)
    leaves,     \* generate_leaves(data)
    root,       \* <<generate_data_root(leaves)>> once built
    proofs,     \* resolve_proofs(root, None)
    vlog,       \* record of the last validate_chunk call, <<>> before any
    tx,         \* <<Tx::generate_merkle(data)>> once called
    \* ---- nodes.rs: find_nodes ----
    cpc,             \* "run" while the stream is collected, "done" once returned
    cfg,             \* [concurrency_level, max_depth, max_count]
    cache,           \* the visited map: address -> "Absent" | "Pending" | "Ok" | "Failed"
    unchecked_nodes, \* the DynamicAsyncQueue: [items, done]
    stream_done,     \* the queue stream has returned end-of-stream
    busy_jobs,       \* the AtomicU16 in-flight counter
    in_progress,     \* probes held by buffer_unordered
    good_nodes,      \* what the collected stream has yielded
    crawl_log,       \* history: pushes and probes per address, tickets yielded,
                     \* the latest all_pending_work_done, items queued at stream end
    \* ---- download.rs: download_chunks ----
    dpc,             \* "run" | "done" (returned) | "panicked"
    dcfg,            \* [concurrency_level, expected_chunk_amount, offset, size]
    chunks_indexes,  \* the DynamicAsyncQueue of DataChunk windows: [items, done]
    dstream_done,    \* the queue stream has returned end-of-stream
    d_busy_jobs,     \* the AtomicU16 in-flight counter
    stage1,          \* request futures held by the first buffer_unordered
    stage2,          \* body futures held by the second buffer_unordered
    writing,         \* the chunk filter_map is writing, <<>> when idle
    d_chunks,        \* `chunks`: the collected DataChunks
    output,          \* the writes made to the output, in order
    output_lock,     \* the await at which the holder of the `output` mutex is
                     \* suspended: <<"seek">> | <<"write_all">>, <<>> when free
    d_result,        \* what download_chunks returned, <<>> before
    dl_log,          \* history: requests made per window, windows that failed
                     \* every request, the latest all_pending_work_done, the
                     \* body the second stage read per window
    \* ---- lib.rs: post_transaction_chunks, upload.rs: post_chunk_with_retries ----
    upc,             \* "start" | "chunks" | "done" (returned) | "panicked"
    u_header,        \* what post_transaction gave for the header, <<>> before
    ucfg,            \* [signed, chunks, buffer]
    u_next,          \* the next chunk index stream::iter gives
    u_jobs,          \* post_chunk_with_retries futures held by buffer_unordered
    results,         \* `results`: what the futures returned, in completion order
    u_result,        \* what post_transaction_chunks returned, <<>> before
    u_log,           \* history per chunk index: attempts made, the attempt that
                     \* first succeeded, the outcome of the last attempt
    \* ---- currency.rs ----
    wpc,             \* "input" | "done" | "panicked"
    amount,          \* the u128 given to Currency::from, as decimal digits
    currency,        \* <<Currency>> once built
    currency_string  \* <<currency.to_string()>> once built

mvars == <<mpc, data, leaves, root, proofs, vlog, tx>>

cvars == <<cpc, cfg, cache, unchecked_nodes, stream_done, busy_jobs, in_progress,
           good_nodes, crawl_log>>

dvars == <<dpc, dcfg, chunks_indexes, dstream_done, d_busy_jobs, stage1, stage2,
           writing, d_chunks, output, output_lock, d_result, dl_log>>

uvars == <<upc, u_header, ucfg, u_next, u_jobs, results, u_result, u_log>>

wvars == <<wpc, amount, currency, currency_string>>

vars == <<mvars, cvars, dvars, uvars, wvars>>

\* the variables of the other components
NotMerkle == <<cvars, dvars, uvars, wvars>>
NotCrawl == <<mvars, dvars, uvars, wvars>>
NotDownload == <<mvars, cvars, uvars, wvars>>
NotUpload == <<mvars, cvars, dvars, wvars>>
NotCurrency == <<mvars, cvars, dvars, uvars>>

-----------------------------------------------------------------------------
(* Program constants                                                       *)

MAX_CHUNK_SIZE == 262144
MIN_CHUNK_SIZE == 32768
HASH_SIZE == 32
NOTE_SIZE == 32

(* Bounds of the model                                                     *)

\* payloads have at most MaxBlocks full MAX_CHUNK_SIZE blocks plus a tail
MaxBlocks == 3

\* 2^24: the range of the lower three bytes of an offset
LoRange == 256 * 256 * 256

Min2(a, b) == IF a < b THEN a ELSE b

-----------------------------------------------------------------------------
(* Run-length encoded byte strings                                         *)

BLen(b) ==
    LET RECURSIVE S(_)
        S(i) == IF i > Len(b) THEN 0 ELSE b[i] + S(i + 2)
    IN S(2)

\* append the run (byte, n) to the normal form r
AddRun(r, byte, n) ==
    IF n = 0 THEN r
    ELSE IF Len(r) > 0 /\ r[Len(r) - 1] = byte
         THEN [r EXCEPT ![Len(r)] = @ + n]
         ELSE r \o <<byte, n>>

\* &a[lo..hi]
Slice(b, lo, hi) ==
    LET RECURSIVE S(_, _, _)
        S(i, pos, acc) ==
            IF i > Len(b) THEN acc
            ELSE LET from == IF lo > pos THEN lo ELSE pos
                     to   == Min2(hi, pos + b[i + 1])
                 IN S(i + 2, pos + b[i + 1],
                      IF to > from THEN AddRun(acc, b[i], to - from) ELSE acc)
    IN S(1, 0, <<>>)

\* [a, b].concat()
Cat(a, b) ==
    LET RECURSIVE S(_, _)
        S(i, acc) == IF i > Len(b) THEN acc ELSE S(i + 2, AddRun(acc, b[i], b[i + 1]))
    IN S(1, a)

\* slice::chunks(size): consecutive slices of `size` bytes, the last one shorter
Chunks(b, size) ==
    LET n == BLen(b)
        k == (n + size - 1) \div size
    IN [i \in 1..k |-> Slice(b, (i - 1) * size, Min2(i * size, n))]

-----------------------------------------------------------------------------
(* crypto/hash.rs                                                          *)

\* sha256 of a byte string; raw payload bytes are tagged -3
sha256(m) == <<-1>> \o m \o <<-2>>

RawBytes(b) == <<-3>> \o b

\* sha256 of the concatenated sha256 of every message
hash_all_sha256(messages) ==
    LET RECURSIVE C(_)
        C(i) == IF i > Len(messages) THEN <<>> ELSE sha256(messages[i]) \o C(i + 1)
    IN sha256(C(1))

-----------------------------------------------------------------------------
(* crypto/merkle.rs                                                        *)

\* 24 zero bytes followed by the 8 big-endian bytes of n (n < 2^24 here)
to_note_vec(n) == <<-4, 0, n \div LoRange, n % LoRange>>

Node(id, data_hash, min_byte_range, max_byte_range, left_child, right_child) ==
    [id |-> id, data_hash |-> data_hash,
     min_byte_range |-> min_byte_range, max_byte_range |-> max_byte_range,
     left_child |-> left_child, right_child |-> right_child]

\* DataChunks with the merged tail split at floor(k/2) instead of ceil(k/2)
DataChunks_FloorHalf(d) ==
    LET c0 == Chunks(d, MAX_CHUNK_SIZE)
        c1 == IF Len(c0) > 1 /\ BLen(c0[Len(c0)]) < MIN_CHUNK_SIZE
              THEN LET last_two   == Cat(c0[Len(c0) - 1], c0[Len(c0)])
                       chunk_size == BLen(last_two) \div 2
                   IN SubSeq(c0, 1, Len(c0) - 2) \o Chunks(last_two, chunk_size)
              ELSE c0
    IN IF BLen(c1[Len(c1)]) = MAX_CHUNK_SIZE THEN Append(c1, <<>>) ELSE c1

\* DataChunks without the zero-length chunk after a full last chunk
DataChunks_NoEmptyTail(d) ==
    LET c0 == Chunks(d, MAX_CHUNK_SIZE)
    IN IF Len(c0) > 1 /\ BLen(c0[Len(c0)]) < MIN_CHUNK_SIZE
       THEN LET last_two   == Cat(c0[Len(c0) - 1], c0[Len(c0)])
                chunk_size == BLen(last_two) \div 2
                              + (IF BLen(last_two) % 2 # 0 THEN 1 ELSE 0)
            IN SubSeq(c0, 1, Len(c0) - 2) \o Chunks(last_two, chunk_size)
       ELSE c0

\* DataChunks that leaves a short last chunk as it is
DataChunks_NoRebalance(d) ==
    LET c1 == Chunks(d, MAX_CHUNK_SIZE)
    IN IF BLen(c1[Len(c1)]) = MAX_CHUNK_SIZE THEN Append(c1, <<>>) ELSE c1

\* the raw chunks of generate_leaves, lines 89-102
DataChunks(d) ==
    LET c0 == Chunks(d, MAX_CHUNK_SIZE)
        c1 == IF Len(c0) > 1 /\ BLen(c0[Len(c0)]) < MIN_CHUNK_SIZE
              THEN LET last_two   == Cat(c0[Len(c0) - 1], c0[Len(c0)])
                       chunk_size == BLen(last_two) \div 2
                                     + (IF BLen(last_two) % 2 # 0 THEN 1 ELSE 0)
                   IN SubSeq(c0, 1, Len(c0) - 2) \o Chunks(last_two, chunk_size)
              ELSE c0
    IN IF BLen(c1[Len(c1)]) = MAX_CHUNK_SIZE THEN Append(c1, <<>>) ELSE c1

\* LeavesOf advancing min_byte_range by a full chunk whatever the chunk's length
LeavesOf_FixedStride(chunks) ==
    LET RECURSIVE L(_, _, _)
        L(i, min_byte_range, acc) ==
            IF i > Len(chunks) THEN acc
            ELSE LET chunk          == chunks[i]
                     data_hash      == sha256(RawBytes(chunk))
                     max_byte_range == min_byte_range + BLen(chunk)
                     offset         == to_note_vec(max_byte_range)
                     id             == hash_all_sha256(<<data_hash, offset>>)
                 IN L(i + 1, min_byte_range + MAX_CHUNK_SIZE,
                      Append(acc, Node(id, <<data_hash>>, min_byte_range,
                                       max_byte_range, <<>>, <<>>)))
    IN L(1, 0, <<>>)

\* the leaf loop of generate_leaves, lines 104-122
LeavesOf(chunks) ==
    LET RECURSIVE L(_, _, _)
        L(i, min_byte_range, acc) ==
            IF i > Len(chunks) THEN acc
            ELSE LET chunk          == chunks[i]
                     data_hash      == sha256(RawBytes(chunk))
                     max_byte_range == min_byte_range + BLen(chunk)
                     offset         == to_note_vec(max_byte_range)
                     id             == hash_all_sha256(<<data_hash, offset>>)
                 IN L(i + 1, min_byte_range + BLen(chunk),
                      Append(acc, Node(id, <<data_hash>>, min_byte_range,
                                       max_byte_range, <<>>, <<>>)))
    IN L(1, 0, <<>>)

generate_leaves(d) == LeavesOf(DataChunks(d))

\* hash_branch spanning from the left child's first byte
hash_branch_FromLeftMin(left, right) ==
    LET max_byte_range == to_note_vec(left.max_byte_range)
        id == hash_all_sha256(<<left.id, right.id, max_byte_range>>)
    IN Node(id, <<>>, left.min_byte_range, right.max_byte_range, <<left>>, <<right>>)

hash_branch(left, right) ==
    LET max_byte_range == to_note_vec(left.max_byte_range)
        id == hash_all_sha256(<<left.id, right.id, max_byte_range>>)
    IN Node(id, <<>>, left.max_byte_range, right.max_byte_range, <<left>>, <<right>>)

build_layer(nodes) ==
    LET RECURSIVE B(_, _)
        B(i, layer) ==
            IF i > Len(nodes) THEN layer
            ELSE IF i + 1 <= Len(nodes)
                 THEN B(i + 2, Append(layer, hash_branch(nodes[i], nodes[i + 1])))
                 ELSE B(i + 2, Append(layer, nodes[i]))
    IN B(1, <<>>)

generate_data_root(nodes) ==
    LET RECURSIVE G(_)
        G(ns) == IF Len(ns) > 1 THEN G(build_layer(ns)) ELSE ns[Len(ns)]
    IN G(nodes)

Proof(offset, proof) == [offset |-> offset, proof |-> proof]

IsLeaf(node) ==
    Len(node.data_hash) = 1 /\ Len(node.left_child) = 0 /\ Len(node.right_child) = 0

IsBranch(node) ==
    Len(node.data_hash) = 0 /\ Len(node.left_child) = 1 /\ Len(node.right_child) = 1

\* resolve_proofs with the right subtree's proofs before the left subtree's
RECURSIVE resolve_proofs_RightFirst(_, _)
resolve_proofs_RightFirst(node, proof) ==
    LET p == IF Len(proof) = 1 THEN proof[1] ELSE Proof(0, <<>>)
    IN IF IsLeaf(node)
       THEN << Proof(node.max_byte_range - 1,
                     p.proof \o <<node.data_hash[1], to_note_vec(node.max_byte_range)>>) >>
       ELSE LET q == Proof(p.offset,
                           p.proof \o <<node.left_child[1].id, node.right_child[1].id,
                                        to_note_vec(node.min_byte_range)>>)
            IN resolve_proofs_RightFirst(node.right_child[1], <<q>>)
               \o resolve_proofs_RightFirst(node.left_child[1], <<q>>)

\* a proof is a sequence of 32-byte words
RECURSIVE resolve_proofs(_, _)
resolve_proofs(node, proof) ==
    LET p == IF Len(proof) = 1 THEN proof[1] ELSE Proof(0, <<>>)
    IN IF IsLeaf(node)
       THEN << Proof(node.max_byte_range - 1,
                     p.proof \o <<node.data_hash[1], to_note_vec(node.max_byte_range)>>) >>
       ELSE LET q == Proof(p.offset,
                           p.proof \o <<node.left_child[1].id, node.right_child[1].id,
                                        to_note_vec(node.min_byte_range)>>)
            IN resolve_proofs(node.left_child[1], <<q>>)
               \o resolve_proofs(node.right_child[1], <<q>>)

\* ProofDeserialize::offset: the last 8 bytes of the note, the notepad is ignored
NoteOffsetHi(note) == note[3]
NoteOffsetLo(note) == note[4]

\* OffsetBelow with >= for >
OffsetBelow_OrEqual(note, max_byte_range) ==
    NoteOffsetHi(note) = 0 /\ max_byte_range >= NoteOffsetLo(note)

\* max_byte_range > branch_proof.offset(), with max_byte_range < 2^24
OffsetBelow(note, max_byte_range) ==
    NoteOffsetHi(note) = 0 /\ max_byte_range > NoteOffsetLo(note)

\* usize -> to_note_vec of a deserialized offset: the notepad is zero again
ReNote(note) == <<-4, 0, NoteOffsetHi(note), NoteOffsetLo(note)>>

\* the leaf test of validate_chunk, line 256
LeafRejected(id, root_id, data_hash, leaf_data_hash) ==
    id # root_id /\ data_hash # leaf_data_hash

\* a proof is a sequence of 32-byte words; a proof cut inside a word ends in
\* <<-6, k>>, the first k bytes (0 < k < 32) of that word
WordLen(word) == IF word[1] = -6 THEN word[2] ELSE HASH_SIZE

\* proof.proof.len()
ProofLen(words) ==
    LET RECURSIVE S(_)
        S(i) == IF i > Len(words) THEN 0 ELSE WordLen(words[i]) + S(i + 1)
    IN S(1)

\* lines 221-230: split_at(len - HASH_SIZE - NOTE_SIZE) and the deserialising
\* of every 96-byte branch record and of the leaf record unwrap
Deserializes(words) ==
    /\ ProofLen(words) >= HASH_SIZE + NOTE_SIZE
    /\ (ProofLen(words) - HASH_SIZE - NOTE_SIZE) % (HASH_SIZE * 2 + NOTE_SIZE) = 0

\* lines 233-252: the id expected after the last branch record, <<>> when a
\* branch record does not hash to the id expected at it
ValidateBranches(root_id0, max_byte_range, words) ==
    LET nb == (Len(words) - 2) \div 3
        RECURSIVE Walk(_, _)
        Walk(i, root_id) ==
            IF i > nb THEN <<root_id>>
            ELSE LET left_id  == words[3 * i - 2]
                     right_id == words[3 * i - 1]
                     note     == words[3 * i]
                     id == hash_all_sha256(<<left_id, right_id, ReNote(note)>>)
                 IN IF id # root_id THEN <<>>
                    ELSE Walk(i + 1, IF OffsetBelow(note, max_byte_range)
                                     THEN right_id ELSE left_id)
    IN Walk(1, root_id0)

\* "Ok" | "InvalidProof" | "panic"
validate_chunk(root_id0, chunk, proof) ==
    LET words == proof.proof
        n     == Len(words)
    IN IF ~Deserializes(words) THEN "panic"
       ELSE
       LET data_hash      == chunk.data_hash[1]
           max_byte_range == chunk.max_byte_range
           leaf_data_hash == words[n - 1]
           last == ValidateBranches(root_id0, max_byte_range, words)
       IN IF Len(last) = 0 THEN "InvalidProof"
          ELSE LET id == hash_all_sha256(<<data_hash, to_note_vec(max_byte_range)>>)
               IN IF LeafRejected(id, last[1], data_hash, leaf_data_hash)
                  THEN "InvalidProof" ELSE "Ok"

-----------------------------------------------------------------------------
(* Inputs and tampering for the Merkle operations                          *)

Bytes == {0, 1}

TailLens == {0, 1, MIN_CHUNK_SIZE - 1, MIN_CHUNK_SIZE, MAX_CHUNK_SIZE - 1}

\* k full blocks, block i filled with byte f[i], then a tail of t bytes tb
PayloadOf(k, f, t, tb) ==
    LET RECURSIVE P(_, _)
        P(i, acc) == IF i > k THEN acc ELSE P(i + 1, AddRun(acc, f[i], MAX_CHUNK_SIZE))
    IN AddRun(P(1, <<>>), tb, t)

Payloads ==
    { PayloadOf(k, f, t, tb) :
        <<k, f, t, tb>> \in
          UNION { {k} \X [1..k -> Bytes] \X TailLens \X Bytes : k \in 0..MaxBlocks } }
    \ { <<>> }

\* the payloads a transaction is made of: the empty one too
TxPayloads == Payloads \cup {<<>>}

\* the byte at index p of b
ByteAt(b, p) == Slice(b, p, p + 1)[1]

\* b with the lowest bit of the byte at index p flipped
FlipByte(b, p) ==
    Cat(Cat(Slice(b, 0, p), <<1 - ByteAt(b, p), 1>>), Slice(b, p + 1, BLen(b)))

\* the leaf a receiver builds from the bytes `bytes` claimed for the range of `leaf`
ChunkNode(leaf, bytes) ==
    LET data_hash == sha256(RawBytes(bytes))
    IN [leaf EXCEPT !.data_hash = <<data_hash>>,
                    !.id = hash_all_sha256(<<data_hash, to_note_vec(leaf.max_byte_range)>>)]

IsNote(word) == word[1] = -4

\* ways of changing one byte of a 32-byte word of a proof
TamperKinds == 1..6

Pow256(j) == IF j = 0 THEN 1 ELSE IF j = 1 THEN 256 ELSE 65536

\* lo with byte j (0 = least significant) replaced by (old + d) mod 256
SetLoByte(lo, j, d) ==
    LET old == (lo \div Pow256(j)) % 256
    IN lo - old * Pow256(j) + ((old + d) % 256) * Pow256(j)

TamperWord(word, t) ==
    IF ~IsNote(word) THEN <<-5>> \o word            \* a digest with one byte changed
    ELSE CASE t = 1 -> [word EXCEPT ![2] = 1]       \* a notepad byte
           [] t = 2 -> [word EXCEPT ![3] = @ + 1]   \* one of the upper 5 offset bytes
           [] t = 3 -> [word EXCEPT ![4] = SetLoByte(@, 0, 1)]
           [] t = 4 -> [word EXCEPT ![4] = SetLoByte(@, 0, 255)]
           [] t = 5 -> [word EXCEPT ![4] = SetLoByte(@, 1, 1)]
           [] OTHER -> [word EXCEPT ![4] = SetLoByte(@, 2, 1)]

-----------------------------------------------------------------------------
(* transaction/mod.rs: Tx::generate_merkle                                 *)

\* merkle.rs line 100: data_chunks.last().unwrap() of a payload without bytes
CodecPanics(d) == d = <<>>

Tx(format, data_size, d, data_root, chunks, tx_proofs) ==
    [format |-> format, data_size |-> data_size, data |-> d, data_root |-> data_root,
     chunks |-> chunks, proofs |-> tx_proofs]

\* lines 131-152: the transaction made of the leaves, the tree and the
\* proofs of a payload
TxOfLeaves(d, chunks0, tree, proofs0) ==
    LET last_chunk == chunks0[Len(chunks0)]
        discard    == last_chunk.max_byte_range = last_chunk.min_byte_range
        chunks     == IF discard THEN SubSeq(chunks0, 1, Len(chunks0) - 1) ELSE chunks0
        tx_proofs  == IF discard THEN SubSeq(proofs0, 1, Len(proofs0) - 1) ELSE proofs0
    IN Tx(2, BLen(d), d, tree.id, chunks, tx_proofs)

\* CallsCodec for every payload
CallsCodec_Always(d) == TRUE

\* line 119: the chunk codec is called unless data.is_empty()
CallsCodec(d) == d # <<>>

-----------------------------------------------------------------------------
(* Merkle operations as actions                                            *)

\* the state of the components a specification does not run
MerkleIdle ==
    /\ mpc = "off" /\ data = <<>> /\ leaves = <<>> /\ root = <<>>
    /\ proofs = <<>> /\ vlog = <<>> /\ tx = <<>>

CrawlIdle ==
    /\ cpc = "off" /\ cfg = <<>> /\ cache = <<>> /\ unchecked_nodes = <<>>
    /\ stream_done = FALSE /\ busy_jobs = 0 /\ in_progress = {} /\ good_nodes = <<>>
    /\ crawl_log = <<>>

DownloadIdle ==
    /\ dpc = "off" /\ dcfg = <<>> /\ chunks_indexes = <<>> /\ dstream_done = FALSE
    /\ d_busy_jobs = 0 /\ stage1 = {} /\ stage2 = {} /\ writing = <<>>
    /\ d_chunks = <<>> /\ output = <<>> /\ output_lock = <<>> /\ d_result = <<>>
    /\ dl_log = <<>>

UploadIdle ==
    /\ upc = "off" /\ u_header = <<>> /\ ucfg = <<>> /\ u_next = 0 /\ u_jobs = {}
    /\ results = <<>>
    /\ u_result = <<>> /\ u_log = <<>>

CurrencyIdle ==
    /\ wpc = "off" /\ amount = <<>> /\ currency = <<>> /\ currency_string = <<>>

MerkleInit ==
    /\ CrawlIdle /\ DownloadIdle /\ UploadIdle /\ CurrencyIdle
    /\ mpc = "input"
    /\ data \in TxPayloads
    /\ leaves = <<>>
    /\ root = <<>>
    /\ proofs = <<>>
    /\ vlog = <<>>
    /\ tx = <<>>

\* generate_leaves -> generate_data_root -> resolve_proofs
Build ==
    /\ mpc = "input"
    /\ IF CodecPanics(data)
       THEN /\ mpc' = "panicked"
            /\ UNCHANGED <<leaves, root, proofs>>
       ELSE /\ mpc' = "built"
            /\ leaves' = generate_leaves(data)
            /\ root' = <<generate_data_root(leaves')>>
            /\ proofs' = resolve_proofs(root'[1], <<>>)
    /\ UNCHANGED <<data, vlog, tx>>
    /\ UNCHANGED NotMerkle

\* Tx::generate_merkle(data), lines 118-153, as Tx::new calls it; leaves,
\* root and proofs hold its locals chunks, root and proofs
GenerateMerkle ==
    /\ mpc = "input"
    /\ IF ~CallsCodec(data)
       THEN /\ mpc' = "tx"
            /\ tx' = <<Tx(2, 0, <<>>, <<>>, <<>>, <<>>)>>
            /\ UNCHANGED <<leaves, root, proofs>>
       ELSE IF CodecPanics(data)
       THEN /\ mpc' = "tx_panicked"
            /\ UNCHANGED <<leaves, root, proofs, tx>>
       ELSE /\ mpc' = "tx"
            /\ leaves' = generate_leaves(data)
            /\ root' = <<generate_data_root(leaves')>>
            /\ proofs' = resolve_proofs(root'[1], <<>>)
            /\ tx' = <<TxOfLeaves(data, leaves', root'[1], proofs')>>
    /\ UNCHANGED <<data, vlog>>
    /\ UNCHANGED NotMerkle

VLog(kind, i, w, chunk, proof) ==
    [kind |-> kind, index |-> i, word |-> w, chunk |-> chunk, proof |-> proof,
     result |-> validate_chunk(root[1].id, chunk, proof)]

\* validate_chunk(root.id, leaves[i], proofs[i])
Validate(i) ==
    /\ mpc = "built"
    /\ mpc' = "checked"
    /\ vlog' = <<VLog("honest", i, 0, leaves[i], proofs[i])>>
    /\ UNCHANGED <<data, leaves, root, proofs, tx>>
    /\ UNCHANGED NotMerkle

\* validate_chunk on a chunk one of whose bytes was changed
ValidateChangedChunk(i, last) ==
    /\ mpc = "built"
    /\ leaves[i].max_byte_range > leaves[i].min_byte_range
    /\ LET bytes == Slice(data, leaves[i].min_byte_range, leaves[i].max_byte_range)
           p     == IF last THEN BLen(bytes) - 1 ELSE 0
       IN vlog' = <<VLog("chunk", i, 0, ChunkNode(leaves[i], FlipByte(bytes, p)), proofs[i])>>
    /\ mpc' = "checked"
    /\ UNCHANGED <<data, leaves, root, proofs, tx>>
    /\ UNCHANGED NotMerkle

\* validate_chunk on a proof one of whose bytes was changed
ValidateChangedProof(i, w, t) ==
    /\ mpc = "built"
    /\ w \in 1..Len(proofs[i].proof)
    /\ IsNote(proofs[i].proof[w]) \/ t = 1
    /\ LET proof == [proofs[i] EXCEPT !.proof[w] = TamperWord(@, t)]
       IN vlog' = <<VLog("proof", i, w, leaves[i], proof)>>
    /\ mpc' = "checked"
    /\ UNCHANGED <<data, leaves, root, proofs, tx>>
    /\ UNCHANGED NotMerkle

\* validate_chunk on a chunk with the right bytes claimed d bytes further on
ValidateMovedChunk(i, d) ==
    /\ mpc = "built"
    /\ leaves[i].max_byte_range + d >= 0
    /\ vlog' = <<VLog("moved", i, 0, [leaves[i] EXCEPT !.max_byte_range = @ + d], proofs[i])>>
    /\ mpc' = "checked"
    /\ UNCHANGED <<data, leaves, root, proofs, tx>>
    /\ UNCHANGED NotMerkle

\* numbers of bytes cut off the end of a proof; -32: one more word at the end
CutLens == {-32, 1, 32, 33, 63, 64, 65, 95, 97}

\* the first ProofLen(words) - c bytes of words
Truncate(words, c) ==
    LET RECURSIVE T(_, _)
        T(ws, k) ==
            IF k = 0 \/ ws = <<>> THEN ws
            ELSE LET wl == WordLen(ws[Len(ws)])
                     front == SubSeq(ws, 1, Len(ws) - 1)
                 IN IF k >= wl THEN T(front, k - wl)
                    ELSE Append(front, <<-6, wl - k>>)
    IN IF c < 0 THEN Append(words, words[Len(words)]) ELSE T(words, c)

\* validate_chunk on a proof of another length
ValidateMalformed(i, c) ==
    /\ mpc = "built"
    /\ LET proof == [proofs[i] EXCEPT !.proof = Truncate(@, c)]
       IN /\ ~Deserializes(proof.proof)
          /\ vlog' = <<VLog("malformed", i, 0, leaves[i], proof)>>
    /\ mpc' = "checked"
    /\ UNCHANGED <<data, leaves, root, proofs, tx>>
    /\ UNCHANGED NotMerkle

MerkleNext ==
    \/ Build
    \/ GenerateMerkle
    \/ \E i \in 1..Len(leaves), d \in {-1, 1} : ValidateMovedChunk(i, d)
    \/ \E i \in 1..Len(leaves), c \in CutLens : ValidateMalformed(i, c)
    \/ \E i \in 1..Len(leaves) : Validate(i)
    \/ \E i \in 1..Len(leaves), last \in BOOLEAN : ValidateChangedChunk(i, last)
    \/ \E i \in 1..Len(leaves), w \in 1..(3 * MaxBlocks + 5), t \in TamperKinds :
          ValidateChangedProof(i, w, t)

SpecMerkle ==
    MerkleInit /\ [][MerkleNext]_vars

-----------------------------------------------------------------------------
(* Properties of the chunk codec, the Merkle engine and the verifier       *)

LeafLen(i) == leaves[i].max_byte_range - leaves[i].min_byte_range

Built == mpc \in {"built", "checked"}

Checked(kind) == mpc = "checked" /\ vlog[1].kind = kind

CatAll(chunks) ==
    LET RECURSIVE C(_, _)
        C(i, acc) == IF i > Len(chunks) THEN acc ELSE C(i + 1, Cat(acc, chunks[i]))
    IN C(1, <<>>)

\* C1: for every non-empty payload there is one proof per leaf, and
\* validate_chunk(root.id, leaves[i], proofs[i]) returns Ok for every leaf i,
\* a zero-length trailing leaf included.
C1_HonestProofsValidate ==
    /\ Built => Len(proofs) = Len(leaves)
    /\ Checked("honest") => vlog[1].result = "Ok"

\* an honest validation of a zero-length trailing leaf under a branch has run
C1_Witness ==
    /\ Checked("honest")
    /\ vlog[1].index = Len(leaves)
    /\ Len(leaves) > 2
    /\ LeafLen(Len(leaves)) = 0

\* C2: a chunk with a changed byte, or a proof with any one byte changed, is
\* rejected by validate_chunk (it does not return Ok).
C2_TamperingRejected ==
    (Checked("chunk") \/ Checked("proof")) => vlog[1].result # "Ok"

\* C8: the leaves' byte ranges are contiguous from 0 to len(P), each leaf hashes
\* exactly the payload bytes of its range, and the chunks concatenate to P.
C8_ContiguousRanges ==
    Built =>
      /\ Len(leaves) >= 1
      /\ leaves[1].min_byte_range = 0
      /\ \A i \in 2..Len(leaves) : leaves[i].min_byte_range = leaves[i - 1].max_byte_range
      /\ leaves[Len(leaves)].max_byte_range = BLen(data)
      /\ \A i \in 1..Len(leaves) :
            leaves[i].data_hash =
              <<sha256(RawBytes(Slice(data, leaves[i].min_byte_range,
                                      leaves[i].max_byte_range)))>>
      /\ CatAll(DataChunks(data)) = data

\* leaves were generated for a payload whose small tail was merged and re-split
C8_Witness ==
    /\ Built
    /\ BLen(data) = 2 * MAX_CHUNK_SIZE + 1
    /\ Len(leaves) = 3

\* C9: a payload of exactly N * 262144 bytes (N >= 1) gives N + 1 leaves: N of
\* 262144 bytes, then one empty leaf with min = max = N * 262144.
C9_ExactMultiple ==
    (Built /\ BLen(data) % MAX_CHUNK_SIZE = 0) =>
      LET N == BLen(data) \div MAX_CHUNK_SIZE
      IN /\ Len(leaves) = N + 1
         /\ \A i \in 1..N : LeafLen(i) = MAX_CHUNK_SIZE
         /\ leaves[N + 1].min_byte_range = N * MAX_CHUNK_SIZE
         /\ leaves[N + 1].max_byte_range = N * MAX_CHUNK_SIZE

\* leaves were generated for a payload of two full blocks
C9_Witness ==
    /\ Built
    /\ BLen(data) = 2 * MAX_CHUNK_SIZE
    /\ Len(leaves) = 3

\* C10: with more than one raw chunk and a last raw chunk shorter than 32768,
\* the last two raw chunks (k bytes together) become chunks of ceil(k/2) and
\* floor(k/2) bytes, earlier chunks stay 262144 bytes; 262145 bytes give exactly
\* 131073 and 131072.
C10_SmallTailRebalanced ==
    LET n == BLen(data)
        q == n \div MAX_CHUNK_SIZE
        r == n % MAX_CHUNK_SIZE
        k == MAX_CHUNK_SIZE + r
    IN /\ (Built /\ q >= 1 /\ r > 0 /\ r < MIN_CHUNK_SIZE) =>
            /\ Len(leaves) = q + 1
            /\ \A i \in 1..(q - 1) : LeafLen(i) = MAX_CHUNK_SIZE
            /\ LeafLen(q) = (k + 1) \div 2
            /\ LeafLen(q + 1) = k \div 2
       /\ (Built /\ n = 262145) =>
            /\ Len(leaves) = 2
            /\ LeafLen(1) = 131073
            /\ LeafLen(2) = 131072

\* leaves were generated for a payload of 262145 bytes
C10_Witness ==
    /\ Built
    /\ BLen(data) = MAX_CHUNK_SIZE + 1
    /\ Len(leaves) = 2

-----------------------------------------------------------------------------
(* DynamicAsyncQueue: a backlog that can grow while it is drained as a     *)
(* stream, and a flag set by all_pending_work_done.  Polling the stream    *)
(* hands out the next backlog item; with an empty backlog it ends the      *)
(* stream once the flag is set and is pending otherwise.                   *)

QueueNew(items) == [items |-> items, done |-> FALSE]

QueueAddItems(q, items) == [q EXCEPT !.items = @ \o items]

QueueAllPendingWorkDone(q) == [q EXCEPT !.done = TRUE]

\* poll_next: <<"item", head, rest>> | <<"end">> | <<"pending">>
QueuePoll(q) ==
    IF q.items # <<>> THEN <<"item", Head(q.items), [q EXCEPT !.items = Tail(@)]>>
    ELSE IF q.done THEN <<"end">>
    ELSE <<"pending">>

-----------------------------------------------------------------------------
(* nodes.rs: NodeClient::find_nodes                                        *)

\* number of peer addresses besides the gateway
MaxPeers == 2
\* ranges of the arguments of find_nodes
MaxConcurrency == 2
MaxDepth == 1
MaxCount == 2

gateway_node == 0

Addrs == 0..MaxPeers

\* lengths of the peer lists GET /peers returns
ListLens == {0, 1, 2}

\* what GET /peers can return: any list of addresses, repeats included
PeerLists == UNION { [1..n -> Addrs] : n \in ListLens }

\* cache.insert(node, Pending) for each item, in order
InsertPending(c, nodes) ==
    [a \in Addrs |-> IF \E i \in 1..Len(nodes) : nodes[i] = a THEN "Pending" ELSE c[a]]

\* how often address a occurs in the list
Count(list, a) == Cardinality({i \in 1..Len(list) : list[i] = a})

\* (peer, depth) items; the ticket numbers items in the order they are queued
Items(nodes, depth, first) ==
    [i \in 1..Len(nodes) |-> [node |-> nodes[i], depth |-> depth, ticket |-> first + i - 1]]

\* peers.iter().filter(|peer| !cache.contains_key(peer)), lines 116-121
NewNodes(c, peers) ==
    LET RECURSIVE F(_)
        F(i) == IF i > Len(peers) THEN <<>>
                ELSE (IF c[peers[i]] = "Absent" THEN <<peers[i]>> ELSE <<>>) \o F(i + 1)
    IN F(1)

\* lines 53-82: the cache and the queue after seeding with the gateway's peers
CrawlInit ==
    /\ MerkleIdle /\ DownloadIdle /\ UploadIdle /\ CurrencyIdle
    /\ cpc = "run"
    /\ cfg \in [concurrency_level : 1..MaxConcurrency,
                max_depth : 0..MaxDepth,
                max_count : 0..MaxCount]
    /\ \E peers \in PeerLists :
         /\ cache = InsertPending([a \in Addrs |-> IF a = gateway_node THEN "Ok" ELSE "Absent"],
                                  peers)
         /\ unchecked_nodes = QueueNew(Items(peers, 0, 1))
         /\ crawl_log = [pushes |-> [a \in Addrs |-> Count(peers, a)],
                         probes |-> [a \in Addrs |-> 0],
                         yielded |-> <<>>,
                         queued |-> Len(peers),
                         last_signal |-> <<>>,
                         queued_at_end |-> 0,
                         failures |-> [a \in Addrs |-> 0],
                         probes_ok_at_max |-> 0]
    /\ stream_done = FALSE
    /\ busy_jobs = 0
    /\ in_progress = {}
    /\ good_nodes = <<>>

\* take(max_count) still polls the stream below it
Polling == cpc = "run" /\ Len(good_nodes) < cfg.max_count

\* buffer_unordered may pull another item from the queue stream
CanPull == ~stream_done /\ Cardinality(in_progress) < cfg.concurrency_level

\* lines 92-99, pulled by buffer_unordered: the queue hands out an item
Dispatch ==
    /\ Polling /\ CanPull
    /\ LET r == QueuePoll(unchecked_nodes)
       IN /\ r[1] = "item"
          /\ unchecked_nodes' = r[3]
          /\ busy_jobs' = (busy_jobs + 1) % 65536
          /\ in_progress' = in_progress \cup {r[2]}
          /\ crawl_log' = [crawl_log EXCEPT !.probes[r[2].node] = @ + 1,
                                            !.yielded = Append(@, r[2].ticket)]
    /\ UNCHANGED <<cpc, cfg, cache, stream_done, good_nodes>>
    /\ UNCHANGED NotCrawl

\* buffer_unordered polls the queue stream and gets end-of-stream
QueueEnd ==
    /\ Polling /\ CanPull
    /\ QueuePoll(unchecked_nodes)[1] = "end"
    /\ stream_done' = TRUE
    /\ crawl_log' = [crawl_log EXCEPT !.queued_at_end = crawl_log.queued]
    /\ UNCHANGED <<cpc, cfg, cache, unchecked_nodes, busy_jobs, in_progress, good_nodes>>
    /\ UNCHANGED NotCrawl

\* lines 153-157: fetch_sub returns the previous value
AfterJob(q) ==
    IF busy_jobs < 2 THEN QueueAllPendingWorkDone(q) ELSE q

\* history: the counter and the backlog at the latest all_pending_work_done
SignalLog(old, q) ==
    IF busy_jobs < 2
    THEN <<[busy_jobs |-> (busy_jobs + 65535) % 65536, backlog |-> Len(q.items)]>>
    ELSE old

\* buffer_unordered hands a finished probe to filter_map only after it has
\* pulled what the queue stream would give it
Pulled ==
    ~CanPull \/ QueuePoll(unchecked_nodes)[1] = "pending"

\* DepthAllows that lets a probe at max_depth queue its peers
DepthAllows_AtMaxDepth(depth, max_depth) == depth <= max_depth

\* line 115: the peers of a node probed at this depth are queued
DepthAllows(depth, max_depth) == depth < max_depth

\* lines 107-143 and 153-158: the probe of item.node returned Ok(peers)
HandleOk(item, peers) ==
    /\ Polling /\ Pulled
    /\ item \in in_progress
    /\ in_progress' = in_progress \ {item}
    /\ LET cache1    == [cache EXCEPT ![item.node] = "Ok"]
           new_nodes == IF DepthAllows(item.depth, cfg.max_depth)
                        THEN NewNodes(cache1, peers) ELSE <<>>
           new_items == Items(new_nodes, item.depth + 1, crawl_log.queued + 1)
       IN /\ cache' = InsertPending(cache1, new_nodes)
          /\ unchecked_nodes' = AfterJob(QueueAddItems(unchecked_nodes, new_items))
          /\ crawl_log' = [crawl_log EXCEPT
                             !.pushes = [a \in Addrs |-> @[a] + Count(new_nodes, a)],
                             !.queued = @ + Len(new_nodes),
                             !.last_signal = SignalLog(@, unchecked_nodes'),
                             !.probes_ok_at_max =
                                 IF item.depth = cfg.max_depth /\ @ = 0 THEN 1 ELSE @]
    /\ busy_jobs' = (busy_jobs + 65535) % 65536
    /\ good_nodes' = Append(good_nodes, item.node)
    /\ UNCHANGED <<cpc, cfg, stream_done>>
    /\ UNCHANGED NotCrawl

\* lines 144-158: the probe of item.node failed
HandleErr(item) ==
    /\ Polling /\ Pulled
    /\ item \in in_progress
    /\ in_progress' = in_progress \ {item}
    /\ cache' = [cache EXCEPT ![item.node] = "Failed"]
    /\ unchecked_nodes' = AfterJob(unchecked_nodes)
    /\ crawl_log' = [crawl_log EXCEPT !.last_signal = SignalLog(@, unchecked_nodes'),
                                      !.failures[item.node] = 1]
    /\ busy_jobs' = (busy_jobs + 65535) % 65536
    /\ UNCHANGED <<cpc, cfg, stream_done, good_nodes>>
    /\ UNCHANGED NotCrawl

\* lines 161-183: take(max_count) closes, or the stream below it has ended
CrawlReturn ==
    /\ cpc = "run"
    /\ \/ Len(good_nodes) = cfg.max_count
       \/ stream_done /\ in_progress = {}
    /\ cpc' = "done"
    /\ UNCHANGED <<cfg, cache, unchecked_nodes, stream_done, busy_jobs, in_progress,
                   good_nodes, crawl_log>>
    /\ UNCHANGED NotCrawl

CrawlNext ==
    \/ Dispatch
    \/ QueueEnd
    \/ \E item \in in_progress, peers \in PeerLists : HandleOk(item, peers)
    \/ \E item \in in_progress : HandleErr(item)
    \/ CrawlReturn

SpecCrawl ==
    CrawlInit /\ [][CrawlNext]_vars

-----------------------------------------------------------------------------
(* download.rs: TransactionDataClient::index_chunks and download_chunks    *)

CHUNK_SIZE == 262144
DEFAULT_RETRIES_PER_CHUNK == 3

\* a transaction spans at most MaxWindows download windows
MaxWindows == 3

DataChunk(seed_offset, file_offset, size, node, chunk) ==
    [seed_offset |-> seed_offset, file_offset |-> file_offset, size |-> size,
     node |-> node, chunk |-> chunk]

\* lines 94-120, for the Offset {offset, size} a peer reports
index_chunks(offset, size) ==
    LET start_offset == offset - size + 1
        RECURSIVE W(_, _)
        W(file_offset, acc) ==
            IF file_offset < size + 1 /\ file_offset + CHUNK_SIZE < size
            THEN W(file_offset + CHUNK_SIZE,
                   Append(acc, DataChunk(start_offset + file_offset, file_offset,
                                         CHUNK_SIZE, <<>>, <<>>)))
            ELSE Append(acc, DataChunk(start_offset + file_offset, file_offset,
                                       size % CHUNK_SIZE, <<>>, <<>>))
    IN W(0, <<>>)

\* the same windows with the peer to ask filled in
WithNode(windows, url) == [i \in 1..Len(windows) |-> [windows[i] EXCEPT !.node = <<url>>]]

\* transaction sizes: up to MaxWindows windows, a short, a nearly full and a full last one
TxSizes ==
    { k * CHUNK_SIZE + t : k \in 0..(MaxWindows - 1), t \in {1, CHUNK_SIZE - 1, CHUNK_SIZE} }

\* where in the weave a transaction's first byte lies
StartOffsets == {0, 7}

\* what one GET /chunk/{offset} can give: a transport error, a body of the
\* expected length, another body (not found, wrong length), a response without
\* a Content-Length header, a body whose chunk field is not base64url
RequestOutcomes == {"err", "full", "bad", "nolen", "undecodable"}

\* lines 132-140, for the windows of a transaction of `size` bytes
DownloadInit ==
    /\ MerkleIdle /\ CrawlIdle /\ UploadIdle /\ CurrencyIdle
    /\ dpc = "run"
    /\ \E size \in TxSizes, start \in StartOffsets, with_node \in BOOLEAN,
          c \in 1..MaxConcurrency :
         LET offset  == start + size - 1
             windows == index_chunks(offset, size)
             items   == IF with_node THEN WithNode(windows, "peer") ELSE windows
         IN /\ dcfg = [concurrency_level |-> c, expected_chunk_amount |-> Len(items),
                       offset |-> offset, size |-> size]
            /\ chunks_indexes = QueueNew(items)
            /\ dl_log = [requests |-> [f \in {items[i].file_offset : i \in 1..Len(items)} |-> 0],
                         failed |-> {},
                         last_signal |-> <<>>,
                         windows |-> items,
                         write_failed |-> {},
                         body |-> [f \in {items[i].file_offset : i \in 1..Len(items)} |-> <<>>]]
    /\ dstream_done = FALSE
    /\ d_busy_jobs = 0
    /\ stage1 = {}
    /\ stage2 = {}
    /\ writing = <<>>
    /\ d_chunks = <<>>
    /\ output = <<>>
    /\ output_lock = <<>>
    /\ d_result = <<>>

\* filter_map holds no write: it polls the stages below it
DPolling == dpc = "run" /\ writing = <<>>

\* the second buffer_unordered polls the first one only while it has room
Room2 == Cardinality(stage2) < dcfg.concurrency_level

DCanPull == ~dstream_done /\ Cardinality(stage1) < dcfg.concurrency_level

\* lines 142-144, pulled by the first buffer_unordered
DDispatch ==
    /\ DPolling /\ Room2 /\ DCanPull
    /\ LET r == QueuePoll(chunks_indexes)
       IN /\ r[1] = "item"
          /\ chunks_indexes' = r[3]
          /\ d_busy_jobs' = (d_busy_jobs + 1) % 65536
          /\ stage1' = stage1 \cup {[chunk |-> r[2], retries |-> 0, res |-> "new"]}
    /\ UNCHANGED <<dpc, dcfg, dstream_done, stage2, writing, d_chunks, output, output_lock,
                   d_result,
                   dl_log>>
    /\ UNCHANGED NotDownload

\* the first buffer_unordered polls the queue stream and gets end-of-stream
DQueueEnd ==
    /\ DPolling /\ Room2 /\ DCanPull
    /\ QueuePoll(chunks_indexes)[1] = "end"
    /\ dstream_done' = TRUE
    /\ UNCHANGED <<dpc, dcfg, chunks_indexes, d_busy_jobs, stage1, stage2, writing,
                   d_chunks, output, output_lock, d_result, dl_log>>
    /\ UNCHANGED NotDownload

\* the first buffer_unordered has pulled what the queue stream would give it
DPulled == ~DCanPull \/ QueuePoll(chunks_indexes)[1] = "pending"

\* lines 145-155: the future starts; without a node url it panics
DStart(f) ==
    /\ DPolling /\ Room2 /\ DPulled
    /\ f \in stage1 /\ f.res = "new"
    /\ IF f.chunk.node = <<>>
       THEN /\ dpc' = "panicked"
            /\ UNCHANGED stage1
       ELSE /\ stage1' = (stage1 \ {f}) \cup {[f EXCEPT !.res = "wait"]}
            /\ UNCHANGED dpc
    /\ UNCHANGED <<dcfg, chunks_indexes, dstream_done, d_busy_jobs, stage2, writing,
                   d_chunks, output, output_lock, d_result, dl_log>>
    /\ UNCHANGED NotDownload

\* lines 155-166: the request in flight returns; after an error it is sent
\* again while retries < retries_per_chunk
DResponse(f, outcome) ==
    /\ DPolling /\ Room2 /\ DPulled
    /\ f \in stage1 /\ f.res = "wait"
    /\ LET again == outcome = "err" /\ f.retries < DEFAULT_RETRIES_PER_CHUNK
           g == IF again THEN [f EXCEPT !.retries = @ + 1]
                ELSE [f EXCEPT !.res = outcome]
       IN /\ stage1' = (stage1 \ {f}) \cup {g}
          /\ dl_log' = [dl_log EXCEPT
                          !.requests[f.chunk.file_offset] = @ + 1,
                          !.failed = IF g.res = "err" THEN @ \cup {f.chunk.file_offset}
                                     ELSE @]
    /\ UNCHANGED <<dpc, dcfg, chunks_indexes, dstream_done, d_busy_jobs, stage2, writing,
                   d_chunks, output, output_lock, d_result>>
    /\ UNCHANGED NotDownload

Finished1(f) == f.res \notin {"new", "wait"}

\* lines 168-182: a finished request future moves on to the second stage
DAdvance(f) ==
    /\ DPolling /\ Room2 /\ DPulled
    /\ f \in stage1 /\ Finished1(f)
    /\ stage1' = stage1 \ {f}
    /\ stage2' = stage2 \cup {[chunk |-> f.chunk, res |-> f.res]}
    /\ UNCHANGED <<dpc, dcfg, chunks_indexes, dstream_done, d_busy_jobs, writing,
                   d_chunks, output, output_lock, d_result, dl_log>>
    /\ UNCHANGED NotDownload

\* the second buffer_unordered has pulled what the first one would give it
DFilled ==
    \/ ~Room2
    \/ /\ DPulled
       /\ \A f \in stage1 : ~Finished1(f)

\* lines 189-241: the body is read once; later rounds of the loop find the
\* body consumed and decode an empty chunk
Fetched(g) == g.res = "full" \/ g.chunk.size = 0

\* history: the counter and the backlog at the latest all_pending_work_done
DSignalLog(old, q) ==
    IF d_busy_jobs < 2
    THEN <<[busy_jobs |-> (d_busy_jobs + 65535) % 65536, backlog |-> Len(q.items)]>>
    ELSE old

\* lines 186-248: the body future of one window runs to its end
DComplete(g) ==
    /\ DPolling /\ DFilled
    /\ g \in stage2
    /\ stage2' = stage2 \ {g}
    /\ CASE g.res = "err" ->
              \* res.as_ref()?: the future ends here
              UNCHANGED <<dpc, chunks_indexes, d_busy_jobs, writing, output_lock, dl_log>>
         [] g.res \in {"nolen", "undecodable"} ->
              \* the unwrap of line 199 or of line 228
              /\ dpc' = "panicked"
              /\ UNCHANGED <<chunks_indexes, d_busy_jobs, writing, output_lock, dl_log>>
         [] OTHER ->
              /\ d_busy_jobs' = (d_busy_jobs + 65535) % 65536
              /\ chunks_indexes' = IF d_busy_jobs < 2
                                   THEN QueueAllPendingWorkDone(chunks_indexes)
                                   ELSE chunks_indexes
              /\ dl_log' = [dl_log EXCEPT !.last_signal = DSignalLog(@, chunks_indexes),
                                         !.body[g.chunk.file_offset] = <<g.res>>]
              /\ writing' = IF Fetched(g)
                            THEN <<[g.chunk EXCEPT !.chunk = <<>>, !.node = <<>>]>>
                            ELSE <<>>
              \* lines 252-256: filter_map locks the output and awaits seek
              /\ output_lock' = IF Fetched(g) THEN <<"seek">> ELSE <<>>
              /\ UNCHANGED dpc
    /\ UNCHANGED <<dcfg, dstream_done, stage1, d_chunks, output, d_result>>
    /\ UNCHANGED NotDownload

\* lines 254-267: the seek to file_offset returns; a failed seek drops the
\* chunk and the guard with it
DSeek(ok) ==
    /\ dpc = "run" /\ writing # <<>> /\ output_lock = <<"seek">>
    /\ IF ok
       THEN /\ output_lock' = <<"write_all">>
            /\ UNCHANGED <<writing, dl_log>>
       ELSE /\ output_lock' = <<>>
            /\ writing' = <<>>
            /\ dl_log' = [dl_log EXCEPT !.write_failed = @ \cup {writing[1].file_offset}]
    /\ UNCHANGED <<dpc, dcfg, chunks_indexes, dstream_done, d_busy_jobs, stage1, stage2,
                   d_chunks, output, d_result>>
    /\ UNCHANGED NotDownload

\* lines 268-281: write_all of chunk.chunk returns, its result is not looked
\* at; the guard is dropped at the end of the block and the chunk is yielded
DWriteAll(ok) ==
    /\ dpc = "run" /\ writing # <<>> /\ output_lock = <<"write_all">>
    /\ output_lock' = <<>>
    /\ writing' = <<>>
    /\ output' = IF ok
                 THEN Append(output, [file_offset |-> writing[1].file_offset,
                                      bytes |-> writing[1].chunk])
                 ELSE output
    /\ d_chunks' = Append(d_chunks, writing[1])
    /\ dl_log' = [dl_log EXCEPT !.write_failed =
                     IF ok THEN @ ELSE @ \cup {writing[1].file_offset}]
    /\ UNCHANGED <<dpc, dcfg, chunks_indexes, dstream_done, d_busy_jobs, stage1, stage2,
                   d_result>>
    /\ UNCHANGED NotDownload

\* lines 283-292: the stream has ended; compare the counts
DReturn ==
    /\ DPolling
    /\ dstream_done /\ stage1 = {} /\ stage2 = {}
    /\ dpc' = "done"
    /\ d_result' = IF Len(d_chunks) # dcfg.expected_chunk_amount
                   THEN <<"MissingChunks">> ELSE <<"Ok">>
    /\ UNCHANGED <<dcfg, chunks_indexes, dstream_done, d_busy_jobs, stage1, stage2,
                   writing, d_chunks, output, output_lock, dl_log>>
    /\ UNCHANGED NotDownload

DownloadNext ==
    \/ DDispatch
    \/ DQueueEnd
    \/ \E f \in stage1 : DStart(f)
    \/ \E f \in stage1, outcome \in RequestOutcomes : DResponse(f, outcome)
    \/ \E f \in stage1 : DAdvance(f)
    \/ \E g \in stage2 : DComplete(g)
    \/ \E ok \in BOOLEAN : DSeek(ok)
    \/ \E ok \in BOOLEAN : DWriteAll(ok)
    \/ DReturn

SpecDownload ==
    DownloadInit /\ [][DownloadNext]_vars

-----------------------------------------------------------------------------
(* upload.rs: Uploader::post_chunk_with_retries, post_chunk;               *)
(* lib.rs: Arweave::post_transaction_chunks, upload_transaction_chunks_stream *)

CHUNKS_RETRIES == 10

\* a transaction has at most MaxChunks chunks, the stream at most MaxBuffer
\* uploads at a time
MaxChunks == 2
MaxBuffer == 2

\* what one post_chunk can meet: status 200, another status, a transport error
PostOutcomes == {"ok", "status", "transport"}

\* post_chunk, lines 56-68, for chunk i
post_chunk(i, outcome) ==
    CASE outcome = "ok"     -> <<"Ok", i>>
      [] outcome = "status" -> <<"Err", "StatusCodeNotOk">>
      [] OTHER              -> <<"Err", "PostChunkError">>

\* a post_chunk_with_retries future whose post_chunk call is in flight
Job(i, retries) == [i |-> i, retries |-> retries, ret |-> <<>>]

\* AfterPost that posts again whatever the response was
AfterPost_RetryOnOk(job, outcome) ==
    LET resp == post_chunk(job.i, outcome)
    IN IF job.retries < CHUNKS_RETRIES
       THEN Job(job.i, job.retries + 1)
       ELSE [job EXCEPT !.ret = <<resp>>]

\* lines 36-49: the post_chunk in flight has returned; ret is what the future
\* returns, <<>> while another post_chunk is in flight
AfterPost(job, outcome) ==
    LET resp == post_chunk(job.i, outcome)
    IN IF job.retries < CHUNKS_RETRIES
       THEN IF resp[1] = "Ok" THEN [job EXCEPT !.ret = <<resp>>]
            ELSE Job(job.i, job.retries + 1)
       ELSE [job EXCEPT !.ret = <<resp>>]

\* CollectResults looking at the last result only
CollectResults_LastOnly(rs) ==
    IF rs # <<>> /\ rs[Len(rs)][1] = "Err" THEN rs[Len(rs)] ELSE <<"Ok", "id_reward">>

\* lines 249-251: results.into_iter().collect::<Result<Vec<usize>, Error>>()?
CollectResults(rs) ==
    LET errs == {k \in 1..Len(rs) : rs[k][1] = "Err"}
    IN IF errs = {} THEN <<"Ok", "id_reward">>
       ELSE rs[CHOOSE k \in errs : \A j \in errs : k <= j]

\* transaction/client.rs lines 45-70, by what the POST /tx requests meet:
\* status 200 on one of at most CHUNKS_RETRIES requests, another status on
\* all of them, or a request that cannot be sent (the expect of line 61)
post_transaction(outcome) ==
    CASE outcome = "ok"     -> <<"Ok", "id_reward">>
      [] outcome = "status" -> <<"Err", "StatusCodeNotOk">>
      [] OTHER              -> <<"panic">>

UploadInit ==
    /\ MerkleIdle /\ CrawlIdle /\ DownloadIdle /\ CurrencyIdle
    /\ upc = "start"
    /\ u_header = <<>>
    /\ ucfg \in [signed : BOOLEAN, chunks : 0..MaxChunks, buffer : 1..MaxBuffer]
    /\ u_next = 0
    /\ u_jobs = {}
    /\ results = <<>>
    /\ u_result = <<>>
    /\ u_log = [i \in 0..(ucfg.chunks - 1) |-> [attempts |-> 0, first_ok |-> 0, last |-> ""]]

\* lines 237-239: the transaction has no id
Unsigned ==
    /\ upc = "start" /\ ~ucfg.signed
    /\ upc' = "done"
    /\ u_result' = <<"Err", "UnsignedTransaction">>
    /\ UNCHANGED <<u_header, ucfg, u_next, u_jobs, results, u_log>>
    /\ UNCHANGED NotUpload

\* lines 241-242: the header (the transaction without data) is posted and
\* the call returns or panics
PostHeader(outcome) ==
    /\ upc = "start" /\ ucfg.signed
    /\ u_header' = post_transaction(outcome)
    /\ CASE u_header' = <<"panic">> -> upc' = "panicked" /\ UNCHANGED u_result
         [] u_header'[1] = "Err"    -> upc' = "done" /\ u_result' = u_header'
         [] OTHER                   -> upc' = "chunks" /\ UNCHANGED u_result
    /\ UNCHANGED <<ucfg, u_next, u_jobs, results, u_log>>
    /\ UNCHANGED NotUpload

\* buffer_unordered may pull the next index from stream::iter
UCanPull == u_next < ucfg.chunks /\ Cardinality(u_jobs) < ucfg.buffer

\* lines 260-266 and 35-36: the upload of the next chunk starts with its
\* first post_chunk
StartChunk ==
    /\ upc = "chunks" /\ UCanPull
    /\ u_jobs' = u_jobs \cup {Job(u_next, 0)}
    /\ u_log' = [u_log EXCEPT ![u_next].attempts = 1]
    /\ u_next' = u_next + 1
    /\ UNCHANGED <<upc, u_header, ucfg, results, u_result>>
    /\ UNCHANGED NotUpload

\* lines 36-49: the post_chunk in flight for job returns; the future either
\* posts again or returns, and buffer_unordered passes what it returned on
PostReturns(job, outcome) ==
    /\ upc = "chunks" /\ ~UCanPull
    /\ job \in u_jobs
    /\ LET next == AfterPost(job, outcome)
           seen == [u_log[job.i] EXCEPT
                      !.last = outcome,
                      !.first_ok = IF outcome = "ok" /\ @ = 0
                                   THEN u_log[job.i].attempts ELSE @]
       IN IF next.ret = <<>>
          THEN /\ u_jobs' = (u_jobs \ {job}) \cup {next}
               /\ u_log' = [u_log EXCEPT ![job.i] = [seen EXCEPT !.attempts = @ + 1]]
               /\ UNCHANGED results
          ELSE /\ u_jobs' = u_jobs \ {job}
               /\ u_log' = [u_log EXCEPT ![job.i] = seen]
               /\ results' = Append(results, [i |-> job.i, ret |-> next.ret[1]])
    /\ UNCHANGED <<upc, u_header, ucfg, u_next, u_result>>
    /\ UNCHANGED NotUpload

\* lines 244-251: the stream has ended and its results are collected
UploadReturn ==
    /\ upc = "chunks" /\ u_next = ucfg.chunks /\ u_jobs = {}
    /\ upc' = "done"
    /\ u_result' = CollectResults([k \in 1..Len(results) |-> results[k].ret])
    /\ UNCHANGED <<u_header, ucfg, u_next, u_jobs, results, u_log>>
    /\ UNCHANGED NotUpload

UploadNext ==
    \/ Unsigned
    \/ \E outcome \in PostOutcomes : PostHeader(outcome)
    \/ StartChunk
    \/ \E job \in u_jobs, outcome \in PostOutcomes : PostReturns(job, outcome)
    \/ UploadReturn

SpecUpload ==
    UploadInit /\ [][UploadNext]_vars

-----------------------------------------------------------------------------
(* currency.rs: Currency, From<u128>, ToString                             *)

\* Unsigned integers are little-endian sequences of limbs in base 10^6 with
\* no zero limb at the top; zero is <<>>.  Strings are sequences of decimal
\* digits.
Limb == 1000000

\* an amount has at most MaxLimbs limbs
MaxLimbs == 7

\* 2^64 - 1 and 2^128 - 1
U64_MAX == <<551615, 73709, 446744, 18>>
U128_MAX == <<211455, 431768, 374607, 463463, 920938, 282366, 340>>

\* WINSTONS_PER_AR = 10^12 = Limb^WinstonLimbs, a string of 1 + WinstonDigits digits
WinstonLimbs == 2
WinstonDigits == 12

\* drop the zero limbs at the top
Canon(n) ==
    LET RECURSIVE C(_)
        C(m) == IF m # <<>> /\ m[Len(m)] = 0 THEN C(SubSeq(m, 1, Len(m) - 1)) ELSE m
    IN C(n)

\* a <= b for canonical a, b
LimbsLeq(a, b) ==
    \/ Len(a) < Len(b)
    \/ /\ Len(a) = Len(b)
       /\ \/ a = b
          \/ \E i \in 1..Len(a) :
               a[i] < b[i] /\ \A j \in (i + 1)..Len(a) : a[j] = b[j]

Pow10(k) ==
    LET RECURSIVE P(_)
        P(j) == IF j = 0 THEN 1 ELSE 10 * P(j - 1)
    IN P(k)

\* str::trim_start_matches('0')
TrimZeros(str) ==
    LET RECURSIVE T(_)
        T(t) == IF t # <<>> /\ t[1] = 0 THEN T(Tail(t)) ELSE t
    IN T(str)

\* the six digits of a limb
LimbDigits(x) == [i \in 1..6 |-> (x \div Pow10(6 - i)) % 10]

\* Display of an unsigned integer
IntToString(n) ==
    LET RECURSIVE D(_)
        D(i) == IF i = 0 THEN <<>> ELSE LimbDigits(n[i]) \o D(i - 1)
    IN IF n = <<>> THEN <<0>> ELSE TrimZeros(D(Len(n)))

\* the value of a string of digits
DigitsValue(str) ==
    LET RECURSIVE V(_)
        \* the limbs of the digits t, lowest first
        V(t) == IF t = <<>> THEN <<>>
                ELSE LET k    == IF Len(t) >= 6 THEN 6 ELSE Len(t)
                         low  == SubSeq(t, Len(t) - k + 1, Len(t))
                         RECURSIVE L(_, _)
                         L(i, acc) == IF i > k THEN acc ELSE L(i + 1, 10 * acc + low[i])
                     IN <<L(1, 0)>> \o V(SubSeq(t, 1, Len(t) - k))
    IN Canon(V(str))

\* str::parse::<u64>: <<value>>, <<>> on overflow
ParseU64(str) ==
    LET v == DigitsValue(str)
    IN IF LimbsLeq(v, U64_MAX) THEN <<v>> ELSE <<>>

\* u % WINSTONS_PER_AR and u / WINSTONS_PER_AR
ModWinstons(u) == Canon(SubSeq(u, 1, IF Len(u) < WinstonLimbs THEN Len(u) ELSE WinstonLimbs))
DivWinstons(u) == SubSeq(u, WinstonLimbs + 1, Len(u))

\* format!("{:#012}", x)
Pad12(x) ==
    LET str == IntToString(x)
    IN IF Len(str) >= WinstonDigits THEN str
       ELSE [i \in 1..(WinstonDigits - Len(str)) |-> 0] \o str

\* impl From<u128> for Currency, lines 18-31: <<Currency>>, <<>> when the
\* unwrap of line 27 panics
CurrencyFrom(u) ==
    LET str == IntToString(u)
    IN IF Len(str) <= WinstonDigits
       THEN <<[arweave |-> <<>>, winston |-> u]>>
       ELSE LET d0 == SubSeq(str, 1, Len(str) - WinstonDigits)
                arweave == ParseU64(d0)
            IN IF arweave = <<>> THEN <<>>
               ELSE <<[arweave |-> arweave[1], winston |-> ModWinstons(u)]>>

\* impl ToString for Currency, lines 54-63
CurrencyToString(c) ==
    LET decimal == Pad12(c.winston)
    IN IF c.arweave = <<>> /\ c.winston = <<>> THEN <<0>>
       ELSE IF c.arweave = <<>> THEN TrimZeros(decimal)
       ELSE IntToString(c.arweave) \o decimal

\* the limbs the amounts are made of
LimbValues == {0, 1, Limb - 1}

\* u128 amounts: every choice of limbs, and the amounts around 2^64 * 10^12
Amounts ==
    { n \in { Canon(f) : f \in UNION { [1..k -> LimbValues] : k \in 0..MaxLimbs } }
             \cup { <<0, 0>> \o U64_MAX,
                    <<Limb - 1, Limb - 1>> \o U64_MAX,
                    <<0, 0, 551616, 73709, 446744, 18>>,
                    U128_MAX } :
        LimbsLeq(n, U128_MAX) }

CurrencyInit ==
    /\ MerkleIdle /\ CrawlIdle /\ DownloadIdle /\ UploadIdle
    /\ wpc = "input"
    /\ amount \in Amounts
    /\ currency = <<>>
    /\ currency_string = <<>>

\* Currency::from(amount)
FromAmount ==
    /\ wpc = "input"
    /\ currency' = CurrencyFrom(amount)
    /\ wpc' = IF currency' = <<>> THEN "panicked" ELSE "built"
    /\ UNCHANGED <<amount, currency_string>>
    /\ UNCHANGED NotCurrency

\* curr.to_string()
FormatCurrency ==
    /\ wpc = "built"
    /\ currency_string' = <<CurrencyToString(currency[1])>>
    /\ wpc' = "done"
    /\ UNCHANGED <<amount, currency>>
    /\ UNCHANGED NotCurrency

CurrencyNext ==
    \/ FromAmount
    \/ FormatCurrency

SpecCurrency ==
    CurrencyInit /\ [][CurrencyNext]_vars

-----------------------------------------------------------------------------
(* Properties of the crawler and of its work queue                         *)

Crawling == cpc # "off"

\* C4: every peer address is pushed to the queue at most once and probed at
\* most once, whatever the seed list and the returned peer lists contain.
C4_PushedAndProbedOnce ==
    Crawling =>
      \A a \in Addrs : crawl_log.pushes[a] <= 1 /\ crawl_log.probes[a] <= 1

\* C5: find_nodes terminates when every probe returns: as long as it has not
\* returned, some step of it can be taken.
C5_CrawlTerminates ==
    cpc = "run" => ENABLED CrawlNext

\* C6: the stream yields every item queued before its end exactly once (the N
\* seeds and the M pushed later, in tickets 1..N+M), and then ends: once all
\* dispatched items have reported completion and the backlog is empty, the
\* end-of-stream flag is set.
C6_YieldsAllThenEnds ==
    /\ (Crawling /\ stream_done) =>
          crawl_log.yielded = [i \in 1..crawl_log.queued_at_end |-> i]
    /\ (Polling /\ ~stream_done /\ in_progress = {} /\ unchecked_nodes.items = <<>>) =>
          unchecked_nodes.done

\* C7: all_pending_work_done is called only when busy_jobs has reached zero
\* and no item is pending in the backlog.
C7_SignalOnlyWhenDrained ==
    (Crawling /\ crawl_log.last_signal # <<>>) =>
      /\ crawl_log.last_signal[1].busy_jobs = 0
      /\ crawl_log.last_signal[1].backlog = 0

\* C16: the gateway's own address is never probed as a peer and is not in the
\* list find_nodes returns, whatever the peer lists contain.
C16_GatewayExcluded ==
    Crawling =>
      /\ crawl_log.probes[gateway_node] = 0
      /\ \A k \in 1..Len(good_nodes) : good_nodes[k] # gateway_node

\* the items in the queue or handed out to a probe
QueuedItems ==
    {unchecked_nodes.items[k] : k \in 1..Len(unchecked_nodes.items)} \cup in_progress

\* the items this step has pushed to the queue
Pushed ==
    {unchecked_nodes'.items[k] : k \in 1..Len(unchecked_nodes'.items)}
      \ {unchecked_nodes.items[k] : k \in 1..Len(unchecked_nodes.items)}

\* C19: every queued item has depth <= max_depth: the seeds are queued with
\* depth 0, and every item pushed later has depth d + 1 for the depth d of the
\* probe whose step pushed it, where d < max_depth.
C19_DepthBounded ==
    /\ [](Crawling =>
            /\ \A item \in QueuedItems : item.depth <= cfg.max_depth
            /\ crawl_log.yielded = <<>> => \A item \in QueuedItems : item.depth = 0)
    /\ [][Crawling =>
            \A item \in Pushed :
              \E probe \in in_progress \ in_progress' :
                probe.depth < cfg.max_depth /\ item.depth = probe.depth + 1]_vars

\* a probe at max_depth >= 1 has returned Ok, and an item of that depth was
\* queued before
C19_Witness ==
    /\ Crawling /\ cfg.max_depth >= 1
    /\ \E item \in QueuedItems : item.depth = cfg.max_depth
    /\ crawl_log.probes_ok_at_max >= 1

\* a probe has left in_progress and nothing was yielded: it had failed
ProbeFailed(probe) ==
    probe \in in_progress /\ in_progress' = in_progress \ {probe} /\ good_nodes' = good_nodes

\* C20: the step of a failed probe sets that peer's status to Failed, changes
\* no other entry of the visited map and pushes nothing; the peer is then not
\* in the returned list, and every peer in the returned list has status Ok.
C20_FailedProbeFrame ==
    /\ [][\A probe \in in_progress :
            ProbeFailed(probe) =>
              /\ cache' = [cache EXCEPT ![probe.node] = "Failed"]
              /\ unchecked_nodes'.items = unchecked_nodes.items]_vars
    /\ [](cpc = "done" =>
            \A k \in 1..Len(good_nodes) :
              /\ cache[good_nodes[k]] = "Ok"
              /\ crawl_log.failures[good_nodes[k]] = 0)

-----------------------------------------------------------------------------
(* Properties of the downloader                                            *)

\* C3: once a window's request has failed on the first try and on every retry,
\* download_chunks returns, and what it returns is Err(MissingChunks): it has
\* not returned Ok, and while it has not returned it can take a step.
C3_FailedWindowReported ==
    (dpc # "off" /\ dl_log.failed # {}) =>
      /\ d_result # <<"Ok">>
      /\ dpc # "done" => ENABLED DownloadNext

\* the id validate_chunk expects at the leaf record of the logged call, <<>> if
\* a branch record was rejected before
ExpectedAtLeaf ==
    ValidateBranches(root[1].id, vlog[1].chunk.max_byte_range, vlog[1].proof.proof)

LeafIdOf(chunk) ==
    hash_all_sha256(<<chunk.data_hash[1], to_note_vec(chunk.max_byte_range)>>)

EmbeddedDataHash == vlog[1].proof.proof[Len(vlog[1].proof.proof) - 1]

AtLeafRecord ==
    /\ mpc = "checked"
    /\ Deserializes(vlog[1].proof.proof)
    /\ ExpectedAtLeaf # <<>>

\* C14: when validate_chunk reaches the leaf record, it returns InvalidProof
\* if the recomputed leaf id differs from the id expected there, and also if
\* the data_hash of the leaf record differs from the chunk's data_hash.
C14_EitherMismatchFails ==
    AtLeafRecord =>
      /\ LeafIdOf(vlog[1].chunk) # ExpectedAtLeaf[1] => vlog[1].result = "InvalidProof"
      /\ EmbeddedDataHash # vlog[1].chunk.data_hash[1] => vlog[1].result = "InvalidProof"

\* C15: validate_chunk on a proof shorter than one leaf record, or whose
\* branch part is not a whole number of branch records, returns InvalidProof.
C15_MalformedProofRejected ==
    (mpc = "checked" /\ ~Deserializes(vlog[1].proof.proof)) =>
       vlog[1].result = "InvalidProof"

\* the branch nodes of the tree under node
RECURSIVE BranchesOf(_)
BranchesOf(node) ==
    IF IsBranch(node)
    THEN {node} \cup BranchesOf(node.left_child[1]) \cup BranchesOf(node.right_child[1])
    ELSE {}

BranchFields(b) ==
    /\ b.id = hash_all_sha256(<<b.left_child[1].id, b.right_child[1].id,
                                 to_note_vec(b.left_child[1].max_byte_range)>>)
    /\ b.data_hash = <<>>
    /\ Len(b.left_child) = 1 /\ Len(b.right_child) = 1
    /\ b.max_byte_range = b.right_child[1].max_byte_range

\* C17: every node hash_branch(left, right) has built has the id
\* hash(left.id, right.id, note(left.max_byte_range)), no data_hash, the
\* children left and right, and the byte range
\* [left.min_byte_range, right.max_byte_range).
C17_BranchSpansChildren ==
    mpc \in {"built", "checked"} =>
      \A b \in BranchesOf(root[1]) :
        BranchFields(b) /\ b.min_byte_range = b.left_child[1].min_byte_range

\* C17 as amended: the same, with min_byte_range = left.max_byte_range, the
\* offset at which the two children meet.
C17_BranchStartsAtSplit ==
    mpc \in {"built", "checked"} =>
      \A b \in BranchesOf(root[1]) :
        BranchFields(b) /\ b.min_byte_range = b.left_child[1].max_byte_range

\* a tree has been built whose root joins two branch nodes
C17_Witness ==
    /\ mpc = "built"
    /\ IsBranch(root[1])
    /\ IsBranch(root[1].left_child[1]) /\ IsBranch(root[1].right_child[1])

\* C13: download_chunks returns Ok only if every expected window's bytes, of
\* the window's length, were written to the output at the window's
\* file_offset; a window whose seek or write failed is not among the collected
\* chunks, and the call then returns MissingChunks.
C13_OkOnlyIfAllWritten ==
    dpc # "off" =>
      /\ d_result = <<"Ok">> =>
            \A i \in 1..Len(dl_log.windows) :
              \E k \in 1..Len(output) :
                /\ output[k].file_offset = dl_log.windows[i].file_offset
                /\ BLen(output[k].bytes) = dl_log.windows[i].size
      /\ \A f \in dl_log.write_failed :
            /\ \A k \in 1..Len(d_chunks) : d_chunks[k].file_offset # f
            /\ dpc = "done" => d_result = <<"MissingChunks">>

-----------------------------------------------------------------------------
(* Properties of the uploader                                              *)

Uploading == upc \in {"chunks", "done"} /\ u_header = <<"Ok", "id_reward">>

\* what post_chunk_with_retries returned for chunk i, <<>> before it returns
ReturnOf(i) ==
    LET ks == {k \in 1..Len(results) : results[k].i = i}
    IN IF ks = {} THEN <<>> ELSE <<results[CHOOSE k \in ks : TRUE].ret>>

\* C11: post_chunk_with_retries makes at most 1 + CHUNKS_RETRIES post attempts
\* for a chunk; no attempt follows one that succeeded, and it returns Ok(offset)
\* exactly when an attempt succeeded; it returns Err only after all
\* 1 + CHUNKS_RETRIES attempts failed, and the Err is the last attempt's failure.
C11_RetriesUntilBound ==
    Uploading =>
      \A i \in DOMAIN u_log :
        LET l == u_log[i]
            r == ReturnOf(i)
        IN /\ l.attempts <= 1 + CHUNKS_RETRIES
           /\ l.first_ok # 0 => l.attempts = l.first_ok
           /\ (r = <<>> /\ l.attempts > 0) => Cardinality({j \in u_jobs : j.i = i}) = 1
           /\ r # <<>> =>
                /\ Cardinality({k \in 1..Len(results) : results[k].i = i}) = 1
                /\ (r[1][1] = "Ok") <=> (l.first_ok # 0)
                /\ r[1][1] = "Ok" => r[1] = <<"Ok", i>>
                /\ r[1][1] = "Err" =>
                     /\ l.attempts = 1 + CHUNKS_RETRIES
                     /\ r[1] = post_chunk(i, l.last)

\* a chunk's upload has returned Ok at its last allowed attempt, and another
\* chunk's has returned Err
C11_Witness ==
    /\ Uploading
    /\ \E i \in DOMAIN u_log :
         ReturnOf(i) = << <<"Ok", i>> >> /\ u_log[i].attempts = 1 + CHUNKS_RETRIES
    /\ \E i \in DOMAIN u_log :
         ReturnOf(i) = << <<"Err", "PostChunkError">> >>

\* C12: once the header post has succeeded, post_transaction_chunks returns
\* only after an upload was attempted and has returned for every chunk index,
\* and it returns Err if and only if some chunk's upload returned Err.
C12_AllChunksAttempted ==
    (upc = "done" /\ Uploading) =>
      /\ \A i \in 0..(ucfg.chunks - 1) : u_log[i].attempts >= 1 /\ ReturnOf(i) # <<>>
      /\ (u_result[1] = "Err") <=> (\E i \in 0..(ucfg.chunks - 1) : ReturnOf(i)[1][1] = "Err")

\* the first chunk's upload failed for good, a later one succeeded, and the
\* call has returned
C12_Witness ==
    /\ upc = "done" /\ Uploading
    /\ ucfg.chunks >= 2
    /\ ReturnOf(0)[1][1] = "Err"
    /\ ReturnOf(1)[1][1] = "Ok"
    /\ results[1].i = 0

-----------------------------------------------------------------------------
(* Properties of the currency amounts                                      *)

\* C18: for every amount n, Currency::from(n) is built and stores
\* arweave = n div 10^12 and winston = n mod 10^12, and its to_string() is the
\* decimal representation of n.
C18_CurrencyOfEveryAmount ==
    /\ wpc \notin {"off", "input"} =>
         /\ wpc # "panicked"
         /\ currency = <<[arweave |-> DivWinstons(amount), winston |-> ModWinstons(amount)]>>
    /\ wpc = "done" => currency_string = <<IntToString(amount)>>

-----------------------------------------------------------------------------
(* Properties of the proof resolver                                        *)

\* the leaves under node, left to right
RECURSIVE LeavesUnder(_)
LeavesUnder(node) ==
    IF IsLeaf(node) THEN <<node>>
    ELSE LeavesUnder(node.left_child[1]) \o LeavesUnder(node.right_child[1])

\* the nodes from node down to its k-th leaf, node first
RECURSIVE PathTo(_, _)
PathTo(node, k) ==
    IF IsLeaf(node) THEN <<node>>
    ELSE LET nl == Len(LeavesUnder(node.left_child[1]))
         IN <<node>> \o (IF k <= nl THEN PathTo(node.left_child[1], k)
                         ELSE PathTo(node.right_child[1], k - nl))

\* the record of one node of a path: 96 bytes for a branch, 64 for a leaf
RecordOf(node) ==
    IF IsLeaf(node)
    THEN <<node.data_hash[1], to_note_vec(node.max_byte_range)>>
    ELSE <<node.left_child[1].id, node.right_child[1].id,
           to_note_vec(node.left_child[1].max_byte_range)>>

\* the records of a path, one after the other
RECURSIVE RecordsOf(_)
RecordsOf(path) ==
    IF Len(path) = 0 THEN <<>> ELSE RecordOf(path[1]) \o RecordsOf(Tail(path))

\* C21: resolve_proofs(root, None) returns one proof per leaf in left-to-right
\* leaf order; the i-th proof has offset leaf_i.max_byte_range - 1 and is one
\* 96-byte record (left.id, right.id, note(left.max_byte_range)) per branch
\* on the path from the root to leaf i, root first, then the 64-byte record
\* (data_hash, note(max_byte_range)) of the leaf.
C21_ProofLayout ==
    Built =>
      /\ LeavesUnder(root[1]) = leaves
      /\ Len(proofs) = Len(leaves)
      /\ \A i \in 1..Len(proofs) :
           LET path == PathTo(root[1], i)
           IN /\ path[Len(path)] = leaves[i]
              /\ proofs[i].offset = leaves[i].max_byte_range - 1
              /\ proofs[i].proof = RecordsOf(path)
              /\ ProofLen(proofs[i].proof)
                   = (Len(path) - 1) * (2 * HASH_SIZE + NOTE_SIZE) + HASH_SIZE + NOTE_SIZE

\* proofs of a tree whose leaves are at different depths have been resolved
C21_Witness ==
    /\ mpc = "built"
    /\ Len(proofs) >= 3
    /\ \E i, j \in 1..Len(proofs) : Len(proofs[i].proof) # Len(proofs[j].proof)

\* lines 247-251: the id the verifier expects next after the j-th branch
\* record of a proof, for a chunk ending at max_byte_range
DescentPick(words, j, max_byte_range) ==
    IF OffsetBelow(words[3 * j], max_byte_range)
    THEN words[3 * j - 1] ELSE words[3 * j - 2]

\* C22: for every leaf of a built tree, a zero-length trailing leaf included,
\* and every branch record of that leaf's proof, the verifier's descent rule
\* picks the id of the child that contains the leaf, the next node of the
\* root-to-leaf path.
C22_DescentFollowsPath ==
    Built =>
      \A i \in 1..Len(leaves) :
        LET path == PathTo(root[1], i)
        IN \A j \in 1..(Len(path) - 1) :
             DescentPick(proofs[i].proof, j, leaves[i].max_byte_range) = path[j + 1].id

-----------------------------------------------------------------------------
(* Properties of the window index and of the download pipeline             *)

Downloading == dpc # "off"

\* the sum of the sizes of the first n windows
RECURSIVE SizeSum(_, _)
SizeSum(windows, n) == IF n = 0 THEN 0 ELSE windows[n].size + SizeSum(windows, n - 1)

\* C23: for every total size >= 1, exact multiples of CHUNK_SIZE included,
\* the windows of index_chunks are in file order, contiguous and
\* non-overlapping, each of CHUNK_SIZE bytes except a possibly shorter,
\* non-empty last one; window i (from 0) has file_offset i * CHUNK_SIZE and
\* seed_offset start_offset + file_offset; the sizes sum to the total size.
C23_WindowsTileTheData ==
    Downloading =>
      LET windows == dl_log.windows
          n == Len(windows)
          start_offset == dcfg.offset - dcfg.size + 1
      IN /\ n >= 1
         /\ \A i \in 1..n :
              /\ windows[i].file_offset = (i - 1) * CHUNK_SIZE
              /\ windows[i].seed_offset = start_offset + windows[i].file_offset
              /\ i < n => windows[i].size = CHUNK_SIZE
              /\ windows[i].size >= 1 /\ windows[i].size <= CHUNK_SIZE
         /\ SizeSum(windows, n) = dcfg.size

\* C24: no lock that guards shared state, the visited map of find_nodes or
\* the output handle of download_chunks, is held across a suspension point:
\* whenever the tasks are suspended at an await, the output mutex is free.
\* (find_nodes takes and drops the cache lock inside one step of its
\* filter_map closure.)
C24_NoLockAcrossAwait ==
    Downloading => output_lock = <<>>

\* C25: in download_chunks the number of windows dispatched whose fetch has
\* not finished, the value of busy_jobs, never exceeds concurrency_level.
C25_BusyWithinConcurrency ==
    Downloading => d_busy_jobs <= dcfg.concurrency_level

\* the windows of the transaction, by file_offset
WindowAt(f) == CHOOSE w \in {dl_log.windows[i] : i \in 1..Len(dl_log.windows)} :
                   w.file_offset = f

\* the windows filter_map has taken as fetched
Counted ==
    {writing[i].file_offset : i \in 1..Len(writing)}
      \cup {d_chunks[i].file_offset : i \in 1..Len(d_chunks)}
      \cup dl_log.write_failed

\* C26: in download_chunks a window whose response is not-found or whose
\* decoded body has not the expected length is requested again from the
\* peer, at most retries_per_chunk times: no window gets more than
\* 1 + retries_per_chunk requests, and a window is given up with such a body
\* only after all of them; a window counts as fetched only if an attempt
\* returned a body of the expected length.
C26_BadBodyRequestedAgain ==
    Downloading =>
      \A f \in DOMAIN dl_log.requests :
        /\ dl_log.requests[f] <= 1 + DEFAULT_RETRIES_PER_CHUNK
        /\ dl_log.body[f] = <<"bad">> /\ WindowAt(f).size # 0
             => dl_log.requests[f] = 1 + DEFAULT_RETRIES_PER_CHUNK
        /\ f \in Counted => dl_log.body[f] = <<"full">> \/ WindowAt(f).size = 0

\* C28: in download_chunks (and find_nodes) every increment of busy_jobs at
\* dispatch is matched by exactly one decrement when the processing of that
\* item ends, on success and on every failure path: busy_jobs counts the
\* windows still in a stage, so it never underflows and is zero once every
\* dispatched window has finished.
C28_BusyJobsBalanced ==
    dpc \in {"run", "done"} =>
      d_busy_jobs = Cardinality(stage1) + Cardinality(stage2)

-----------------------------------------------------------------------------
(* Properties of Tx::generate_merkle and of the chunk sizes                *)

\* the nodes of a sequence that span at least one byte
NonEmptyNodes(nodes) ==
    SelectSeq(nodes, LAMBDA n : n.max_byte_range > n.min_byte_range)

\* C27: Tx::generate_merkle of an empty payload does not call the chunk
\* codec and returns format 2, data_size 0, an empty data_root, no chunks and
\* no proofs; of a non-empty payload it returns data_size = len(data),
\* data_root = the root id, and as many chunks as proofs: the leaves of
\* generate_leaves and their proofs without a zero-length trailing chunk and
\* its proof.
C27_TxOfPayload ==
    /\ data = <<>> => mpc # "tx_panicked"
    /\ (mpc = "tx" /\ data = <<>>) =>
          /\ tx[1].format = 2 /\ tx[1].data_size = 0 /\ tx[1].data_root = <<>>
          /\ tx[1].chunks = <<>> /\ tx[1].proofs = <<>>
    /\ (mpc = "tx" /\ data # <<>>) =>
          LET all  == generate_leaves(data)
              tree == generate_data_root(all)
              keep == Len(NonEmptyNodes(all))
          IN /\ tx[1].format = 2
             /\ tx[1].data_size = BLen(data)
             /\ tx[1].data_root = tree.id
             /\ Len(tx[1].chunks) = Len(tx[1].proofs)
             /\ keep >= Len(all) - 1
             /\ tx[1].chunks = SubSeq(all, 1, keep)
             /\ tx[1].chunks = NonEmptyNodes(all)
             /\ tx[1].proofs = SubSeq(resolve_proofs(tree, <<>>), 1, keep)

\* the transaction of an empty payload has been built
C27_Witness ==
    mpc = "tx" /\ data = <<>> /\ tx # <<>>

\* C29: for every non-empty payload every chunk of generate_leaves has at
\* most 262144 bytes; a zero-length chunk is the last chunk and comes right
\* after a chunk of exactly 262144 bytes; when more than one chunk is
\* returned, every chunk other than that zero-length one has at least 32768
\* bytes.
C29_ChunkSizes ==
    Built =>
      LET n == Len(leaves)
      IN /\ n >= 1
         /\ \A i \in 1..n :
              /\ LeafLen(i) <= MAX_CHUNK_SIZE
              /\ LeafLen(i) = 0 =>
                   i = n /\ i > 1 /\ LeafLen(i - 1) = MAX_CHUNK_SIZE
              /\ (n > 1 /\ LeafLen(i) # 0) => LeafLen(i) >= MIN_CHUNK_SIZE

\* leaves were generated for a payload of two full blocks and one more byte
C29_Witness ==
    /\ Built
    /\ BLen(data) = 2 * MAX_CHUNK_SIZE + 1
    /\ Len(leaves) = 3
    /\ LeafLen(3) >= MIN_CHUNK_SIZE

-----------------------------------------------------------------------------
(* Properties of post_transaction_chunks                                   *)

NoChunkPosted == \A i \in DOMAIN u_log : u_log[i].attempts = 0

\* C30: in post_transaction_chunks the header, the transaction without data,
\* is posted before any chunk is uploaded; when the transaction is unsigned
\* (UnsignedTransaction) or the header post fails, the error is returned and
\* no chunk upload is attempted.
C30_HeaderBeforeChunks ==
    /\ (upc # "off" /\ ~NoChunkPosted) => u_header = <<"Ok", "id_reward">>
    /\ (upc \notin {"off", "start"} /\ ~ucfg.signed) =>
          /\ upc = "done" /\ u_result = <<"Err", "UnsignedTransaction">>
          /\ u_header = <<>> /\ NoChunkPosted
    /\ (upc # "off" /\ u_header \notin {<<>>, <<"Ok", "id_reward">>}) =>
          /\ upc = "done" /\ u_result = <<"Err", "StatusCodeNotOk">>
          /\ NoChunkPosted

====
